---------------------------- MODULE Spec2Model ----------------------------
(***************************************************************************)
(* Genetic-algorithm scheduler of src/main.py: Schedule.calculate_fitness, *)
(* the cached Schedule.get_fitness, and GeneticAlgorithm (population       *)
(* initialisation, tournament selection, single-point crossover, mutation  *)
(* and the generational loop evolve with its convergence test).            *)
(*                                                                         *)
(* Fitness values are kept in units of 0.05, so every constant of the      *)
(* scoring rules is an integer (0.5 is 10, 0.4 is 8, 0.3 is 6, 0.25 is 5,  *)
(* 0.2 is 4, 0.1 is 2).  The source adds binary floating-point numbers;    *)
(* the model adds the exact values.  An average over the population is     *)
(* kept as the sum of the fitnesses (the average times the population      *)
(* size, which is fixed during a run).                                     *)
(*                                                                         *)
(* ScheduleItem objects live in a heap (reference -> item), because        *)
(* crossover builds a child whose item list holds the parents' item        *)
(* objects and mutate works on a deep copy of them.                        *)
(***************************************************************************)
EXTENDS Integers, Sequences, FiniteSets

VARIABLES
    activities,            \* GeneticAlgorithm.activities
    rooms,                 \* GeneticAlgorithm.rooms
    time_slots,            \* GeneticAlgorithm.time_slots
    facilitators,          \* GeneticAlgorithm.facilitators
    population_size,       \* GeneticAlgorithm.population_size
    mutation_rate,         \* GeneticAlgorithm.mutation_rate, <<numerator, denominator>>
    population,            \* GeneticAlgorithm.population: sequence of Schedule
    heap,                  \* the ScheduleItem objects: reference -> item
    pc,                    \* position of the running call
    generations,           \* evolve's argument
    improvement_threshold, \* evolve's argument, <<numerator, denominator>>
    gen,                   \* evolve's loop index
    avg_fitness_history,   \* evolve's local (sums, see above)
    best_fitness_history,  \* evolve's local
    improvement,           \* evolve's local: <<>> or << <<numerator, denominator>> >>
    new_population,        \* evolve's local
    result,                \* the value evolve returned: <<>> or <<Schedule>>
    error,                 \* the exception that ended the call, "" when none
    parent1,               \* crossover's argument (index into population), 0 when none
    parent2,               \* crossover's argument (index into population), 0 when none
    crossover_point,       \* crossover's local, 0 when none
    child,                 \* the Schedule crossover returned: <<>> or <<Schedule>>
    mutated                \* the Schedule mutate returned: <<>> or <<Schedule>>

vars == <<activities, rooms, time_slots, facilitators, population_size,
          mutation_rate, population, heap, pc, generations,
          improvement_threshold, gen, avg_fitness_history,
          best_fitness_history, improvement, new_population, result, error,
          parent1, parent2, crossover_point, child, mutated>>

-----------------------------------------------------------------------------
(* Domain model                                                            *)

Activity(name, expected_enrollment, preferred, other, section) ==
    [name |-> name, expected_enrollment |-> expected_enrollment,
     preferred_facilitators |-> preferred, other_facilitators |-> other,
     section |-> section]

Room(name, capacity, building) ==
    [name |-> name, capacity |-> capacity, building |-> building]

TimeSlot(hour, minute) == [hour |-> hour, minute |-> minute]

ScheduleItem(activity, room, time_slot, facilitator) ==
    [activity |-> activity, room |-> room, time_slot |-> time_slot,
     facilitator |-> facilitator]

\* Schedule.__init__: the item list (references) and an empty fitness cache.
\* The cache is <<>> for None and <<v>> for the cached value v.
Schedule(items) == [items |-> items, fitness |-> <<>>]

\* TimeSlot.__str__: "HH:MM", one string per (hour, minute) pair.
SlotKey(time_slot) == <<time_slot.hour, time_slot.minute>>

Abs(x) == IF x < 0 THEN -x ELSE x

RECURSIVE SumSeq(_)
SumSeq(s) == IF s = <<>> THEN 0 ELSE Head(s) + SumSeq(Tail(s))

RECURSIVE MaxSeq(_)
MaxSeq(s) ==
    IF Len(s) = 1 THEN s[1]
    ELSE LET m == MaxSeq(Tail(s)) IN IF s[1] >= m THEN s[1] ELSE m

-----------------------------------------------------------------------------
(* The data set of create_actual_data                                      *)

DocFacilitators ==
    <<"Lock", "Glen", "Banks", "Richards", "Shaw", "Singer",
      "Uther", "Tyler", "Numen", "Zeldin">>

DocActivities ==
    << Activity("SLA100", 50, {"Glen", "Lock", "Banks", "Zeldin"},
                {"Numen", "Richards"}, "A"),
       Activity("SLA100", 50, {"Glen", "Lock", "Banks", "Zeldin"},
                {"Numen", "Richards"}, "B"),
       Activity("SLA191", 50, {"Glen", "Lock", "Banks", "Zeldin"},
                {"Numen", "Richards"}, "A"),
       Activity("SLA191", 50, {"Glen", "Lock", "Banks", "Zeldin"},
                {"Numen", "Richards"}, "B"),
       Activity("SLA201", 50, {"Glen", "Banks", "Zeldin", "Shaw"},
                {"Numen", "Richards", "Singer"}, "None"),
       Activity("SLA291", 50, {"Lock", "Banks", "Zeldin", "Singer"},
                {"Numen", "Richards", "Shaw", "Tyler"}, "None"),
       Activity("SLA303", 60, {"Glen", "Zeldin", "Banks"},
                {"Numen", "Singer", "Shaw"}, "None"),
       Activity("SLA304", 25, {"Glen", "Banks", "Tyler"},
                {"Numen", "Singer", "Shaw", "Richards", "Uther", "Zeldin"},
                "None"),
       Activity("SLA394", 20, {"Tyler", "Singer"},
                {"Richards", "Zeldin"}, "None"),
       Activity("SLA449", 60, {"Tyler", "Singer", "Shaw"},
                {"Zeldin", "Uther"}, "None"),
       Activity("SLA451", 100, {"Tyler", "Singer", "Shaw"},
                {"Zeldin", "Uther", "Richards", "Banks"}, "None") >>

DocRooms ==
    << Room("Slater 003", 45, "Slater"), Room("Roman 216", 30, "Roman"),
       Room("Loft 206", 75, "Loft"),     Room("Roman 201", 50, "Roman"),
       Room("Loft 310", 108, "Loft"),    Room("Beach 201", 60, "Beach"),
       Room("Beach 301", 75, "Beach"),   Room("Logos 325", 450, "Logos"),
       Room("Frank 119", 60, "Frank") >>

DocTimeSlots ==
    << TimeSlot(10, 0), TimeSlot(11, 0), TimeSlot(12, 0),
       TimeSlot(13, 0), TimeSlot(14, 0), TimeSlot(15, 0) >>

-----------------------------------------------------------------------------
(* Schedule.calculate_fitness                                              *)

RoomConflictPenalty == -10
RoomTooSmallPenalty == -10
RoomFarTooLargePenalty == -8
RoomTooLargePenalty == -4
RoomFitBonus == 6
PreferredBonus == 10
OtherBonus == 4
UnlistedPenalty == -2
SlotLoadBonus == 4
SlotLoadPenalty == -4
OverloadPenalty == -10
TylerPenalty == -8
UnderloadPenalty == -8
SectionsApartBonus == 10
SectionsSameHourPenalty == -10
ConsecutiveBonus == 10
FarBuildingPenalty == -8
TwoHourBonus == 5
SameHourPenalty == -5

\* The names the special rules test for, and the buildings they call far.
LinkedNames == {"SLA 101", "SLA 191"}
SpecialFacilitator == "Dr. Tyler"
FarBuildings == {"Roman", "Beach"}

\* facilitator_loads[f]: the number of items of the schedule assigned to f.
FacilitatorLoad(items, f) ==
    Cardinality({j \in 1..Len(items) : items[j].facilitator = f})

\* time_slot_assignments[slot_key]: the positions of the items in that slot.
SlotAssignments(items, key) ==
    {j \in 1..Len(items) : SlotKey(items[j].time_slot) = key}

\* Room conflicts: one penalty per item of the same slot that is not equal
\* to this item (dataclass equality, by value) and has an equal room.
RoomConflictTerm(items, i) ==
    RoomConflictPenalty *
        Cardinality({j \in SlotAssignments(items, SlotKey(items[i].time_slot)) :
                        /\ items[j] # items[i]
                        /\ items[j].room = items[i].room})

RoomSizeTerm(item) ==
    IF item.room.capacity < item.activity.expected_enrollment
        THEN RoomTooSmallPenalty
    ELSE IF item.room.capacity > 6 * item.activity.expected_enrollment
        THEN RoomFarTooLargePenalty
    ELSE IF item.room.capacity > 3 * item.activity.expected_enrollment
        THEN RoomTooLargePenalty
    ELSE RoomFitBonus

FacilitatorPreferenceTerm(item) ==
    IF item.facilitator \in item.activity.preferred_facilitators
        THEN PreferredBonus
    ELSE IF item.facilitator \in item.activity.other_facilitators
        THEN OtherBonus
    ELSE UnlistedPenalty

FacilitatorCountInSlot(items, i) ==
    Cardinality({j \in SlotAssignments(items, SlotKey(items[i].time_slot)) :
                    items[j].facilitator = items[i].facilitator})

SlotLoadTerm(items, i) ==
    LET n == FacilitatorCountInSlot(items, i)
    IN  IF n = 1 THEN SlotLoadBonus
        ELSE IF n > 1 THEN SlotLoadPenalty
        ELSE 0

TotalLoadTerm(items, i) ==
    LET f == items[i].facilitator
        n == FacilitatorLoad(items, f)
    IN  IF n > 4 THEN OverloadPenalty
        ELSE IF n = 3 /\ f = SpecialFacilitator THEN TylerPenalty
        ELSE IF n < 3 /\ f # SpecialFacilitator THEN UnderloadPenalty
        ELSE 0

\* next(...): the first item, in list order, of the same name and another
\* section; 0 when there is none.
OtherSection(items, i) ==
    LET S == {j \in 1..Len(items) :
                 /\ items[j].activity.name = items[i].activity.name
                 /\ items[j].activity.section # items[i].activity.section}
    IN  IF S = {} THEN 0 ELSE CHOOSE j \in S : \A k \in S : j <= k

PairedSectionTerm(items, i) ==
    IF items[i].activity.name \in LinkedNames /\ OtherSection(items, i) # 0
    THEN LET time_diff == Abs(items[OtherSection(items, i)].time_slot.hour
                              - items[i].time_slot.hour)
         IN  IF time_diff > 4 THEN SectionsApartBonus
             ELSE IF time_diff = 0 THEN SectionsSameHourPenalty
             ELSE 0
    ELSE 0

\* What one other item adds to item i under the consecutive-slot rule.
ConsecutivePairTerm(item, other_item) ==
    LET time_diff == Abs(other_item.time_slot.hour - item.time_slot.hour)
    IN  IF time_diff = 1
        THEN ConsecutiveBonus +
             (IF (item.room.building \in FarBuildings)
                   # (other_item.room.building \in FarBuildings)
              THEN FarBuildingPenalty ELSE 0)
        ELSE IF time_diff = 2 THEN TwoHourBonus
        ELSE IF time_diff = 0 THEN SameHourPenalty
        ELSE 0

ConsecutiveTerm(items, i) ==
    IF items[i].activity.name \in LinkedNames
    THEN SumSeq([j \in 1..Len(items) |->
                    IF /\ items[j].activity.name \in LinkedNames
                       /\ items[j] # items[i]
                    THEN ConsecutivePairTerm(items[i], items[j])
                    ELSE 0])
    ELSE 0

ItemFitness(items, i) ==
    RoomConflictTerm(items, i) + RoomSizeTerm(items[i])
    + FacilitatorPreferenceTerm(items[i]) + SlotLoadTerm(items, i)
    + TotalLoadTerm(items, i) + PairedSectionTerm(items, i)
    + ConsecutiveTerm(items, i)

\* calculate_fitness over the items themselves (a sequence of ScheduleItem).
calculate_fitness(items) ==
    SumSeq([i \in 1..Len(items) |-> ItemFitness(items, i)])

-----------------------------------------------------------------------------
(* Schedule objects and the heap of ScheduleItem objects                   *)

\* The items a Schedule's list refers to, in order.
ItemsOf(h, s) == [i \in 1..Len(s.items) |-> h[s.items[i]]]

\* Schedule.get_fitness: the Schedule with its cache filled.
get_fitness(h, s) ==
    IF s.fitness = <<>>
    THEN [s EXCEPT !.fitness = <<calculate_fitness(ItemsOf(h, s))>>]
    ELSE s

\* The value get_fitness returns.
FitnessValue(h, s) == get_fitness(h, s).fitness[1]

\* get_fitness called on the Schedules at the positions T of a list.
CacheAt(h, pop, T) ==
    [i \in 1..Len(pop) |-> IF i \in T THEN get_fitness(h, pop[i]) ELSE pop[i]]

RECURSIVE FreshRefs(_, _, _)
\* The k lowest references not in use, searching from r upwards.
FreshRefs(used, k, r) ==
    IF k = 0 THEN <<>>
    ELSE IF r \in used THEN FreshRefs(used, k, r + 1)
    ELSE <<r>> \o FreshRefs(used, k - 1, r + 1)

\* No copy: the list of the same item objects (list(items) in the place of
\* copy.deepcopy(items)).
deepcopy_shallow(h, refs) == [heap |-> h, refs |-> refs]

\* copy.deepcopy of an item list: new objects that hold equal values.
deepcopy(h, refs) ==
    LET fresh == FreshRefs(DOMAIN h, Len(refs), 1)
        new   == {fresh[i] : i \in 1..Len(refs)}
    IN  [heap |-> [r \in DOMAIN h \cup new |->
                      IF r \in DOMAIN h THEN h[r]
                      ELSE h[refs[CHOOSE i \in 1..Len(refs) : fresh[i] = r]]],
         refs |-> fresh]

\* The references a list of Schedules holds.
RefsOf(scheds) ==
    UNION {{scheds[i].items[j] : j \in 1..Len(scheds[i].items)} :
              i \in 1..Len(scheds)}

\* Objects no Schedule refers to any more are freed.
Collect(h, live) == [r \in DOMAIN h \cap live |-> h[r]]

-----------------------------------------------------------------------------
(* GeneticAlgorithm                                                        *)

TournamentSize == 5
ConvergenceStart == 100
ConvergenceLookback == 100

\* A gene as initialize_population draws it: the positions random.choice
\* picked in rooms, time_slots and facilitators.
Genes(cfg) ==
    (1..Len(cfg.rooms)) \X (1..Len(cfg.time_slots)) \X (1..Len(cfg.facilitators))

\* initialize_population: individual p's item for activity i is the object
\* at reference (p - 1) * K + i.
InitialHeap(cfg, pop) ==
    LET K == Len(cfg.activities)
    IN  [r \in 1..(Len(pop) * K) |->
            LET p == ((r - 1) \div K) + 1
                i == ((r - 1) % K) + 1
                g == pop[p][i]
            IN  ScheduleItem(cfg.activities[i], cfg.rooms[g[1]],
                             cfg.time_slots[g[2]], cfg.facilitators[g[3]])]

InitialPopulation(cfg, pop) ==
    LET K == Len(cfg.activities)
    IN  [p \in 1..Len(pop) |-> Schedule([i \in 1..K |-> (p - 1) * K + i])]

\* select_parent: the positions it can return.  random.sample draws
\* TournamentSize distinct individuals in a random order and max returns the
\* first of the greatest fitness, so any individual of a sample that no
\* other of the sample beats can be returned.
Tournaments(pop) ==
    {T \in SUBSET (1..Len(pop)) : Cardinality(T) = TournamentSize}

select_parent(h, pop, T) ==
    {i \in T : \A j \in T : FitnessValue(h, pop[i]) >= FitnessValue(h, pop[j])}

\* Python's s[:c] and s[c:].
SliceTo(s, c) == SubSeq(s, 1, IF c < Len(s) THEN c ELSE Len(s))
SliceFrom(s, c) == SubSeq(s, (IF c < Len(s) THEN c ELSE Len(s)) + 1, Len(s))

\* random.randint(1, len(self.activities)): the cut can be the length.
CrossoverPoints_inclusive == 1..Len(activities)

\* random.randint(1, len(self.activities) - 1)
CrossoverPoints == 1..(Len(activities) - 1)

\* crossover with parent2 sliced one position early (items[point - 1:]).
crossover_early(p1, p2, point) ==
    Schedule(SliceTo(p1.items, point) \o SliceFrom(p2.items, point - 1))

crossover(p1, p2, point) ==
    Schedule(SliceTo(p1.items, point) \o SliceFrom(p2.items, point))

\* What mutate's random draws can decide for one item: leave it (random()
\* is in [0, 1), so this needs mutation_rate < 1), or (mutation_rate > 0)
\* redraw one facet: the position random.choice picks in the facet's list.
MutationDecisions ==
    (IF mutation_rate[1] < mutation_rate[2] THEN {<<"none", 0>>} ELSE {})
    \cup (IF mutation_rate[1] > 0
          THEN ({"room"} \X (1..Len(rooms)))
               \cup ({"time"} \X (1..Len(time_slots)))
               \cup ({"facilitator"} \X (1..Len(facilitators)))
          ELSE {})

\* A room mutation that draws the time slot again as well.
MutateItem_two(item, d) ==
    IF d[1] = "room"
        THEN [item EXCEPT !.room = rooms[d[2]],
                          !.time_slot =
                              time_slots[IF d[2] <= Len(time_slots) THEN d[2] ELSE 1]]
    ELSE IF d[1] = "time" THEN [item EXCEPT !.time_slot = time_slots[d[2]]]
    ELSE IF d[1] = "facilitator"
        THEN [item EXCEPT !.facilitator = facilitators[d[2]]]
    ELSE item

MutateItem(item, d) ==
    IF d[1] = "room" THEN [item EXCEPT !.room = rooms[d[2]]]
    ELSE IF d[1] = "time" THEN [item EXCEPT !.time_slot = time_slots[d[2]]]
    ELSE IF d[1] = "facilitator"
        THEN [item EXCEPT !.facilitator = facilitators[d[2]]]
    ELSE item

RECURSIVE MutateFrom(_, _, _, _)
\* The loop over new_items, from position i on.
MutateFrom(h, refs, ds, i) ==
    IF i > Len(refs) THEN h
    ELSE MutateFrom([h EXCEPT ![refs[i]] = MutateItem(h[refs[i]], ds[i])],
                    refs, ds, i + 1)

\* The loop of mutate over the copy c that deepcopy returned.
MutateCopy(c, ds) ==
    [heap |-> MutateFrom(c.heap, c.refs, ds, 1), schedule |-> Schedule(c.refs)]

\* mutate: the heap after the call and the Schedule returned.
mutate(h, s, ds) == MutateCopy(deepcopy(h, s.items), ds)

\* Every result mutate(s) can have, over the outcomes of its random draws.
MutateOutcomes(h, s) ==
    LET c == deepcopy(h, s.items)
    IN  {MutateCopy(c, ds) : ds \in [1..Len(s.items) -> MutationDecisions]}

\* Python's h[-k].
FromEnd(h, k) == h[Len(h) - k + 1]

\* improvement = (h[-1] - h[-100]) / abs(h[-100]), as <<numerator,
\* denominator>> with the population size cancelled.
Improvement(h) ==
    <<FromEnd(h, 1) - FromEnd(h, ConvergenceLookback),
      Abs(FromEnd(h, ConvergenceLookback))>>

\* a / b < c / d for b, d > 0
Less(x, y) == x[1] * y[2] < y[1] * x[2]

\* min in the place of max: the first of the least fitness.
Best_min(h, pop) ==
    CHOOSE i \in 1..Len(pop) :
        /\ \A j \in 1..Len(pop) : FitnessValue(h, pop[i]) <= FitnessValue(h, pop[j])
        /\ \A j \in 1..(i - 1) : FitnessValue(h, pop[j]) > FitnessValue(h, pop[i])

\* max(self.population, key=get_fitness): the first of the greatest fitness.
Best(h, pop) ==
    CHOOSE i \in 1..Len(pop) :
        /\ \A j \in 1..Len(pop) : FitnessValue(h, pop[i]) >= FitnessValue(h, pop[j])
        /\ \A j \in 1..(i - 1) : FitnessValue(h, pop[j]) < FitnessValue(h, pop[i])

-----------------------------------------------------------------------------
(* GeneticAlgorithm.__init__ and the call of evolve                        *)

\* __init__ stores its arguments and builds the population; nothing is
\* validated.  pop gives the genes initialize_population drew.
Construct(cfg, pop) ==
    /\ activities = cfg.activities
    /\ rooms = cfg.rooms
    /\ time_slots = cfg.time_slots
    /\ facilitators = cfg.facilitators
    /\ population_size = cfg.population_size
    /\ mutation_rate = cfg.mutation_rate
    /\ population = InitialPopulation(cfg, pop)
    /\ heap = InitialHeap(cfg, pop)

\* No crossover or mutate call of a test driver is under way.
NoDriver ==
    /\ parent1 = 0
    /\ parent2 = 0
    /\ crossover_point = 0
    /\ child = <<>>
    /\ mutated = <<>>

\* evolve(generations, improvement_threshold) entered: the first two lines.
EnterEvolve(cfg) ==
    /\ pc = "loop"
    /\ generations = cfg.generations
    /\ improvement_threshold = cfg.improvement_threshold
    /\ gen = 0
    /\ avg_fitness_history = <<>>
    /\ best_fitness_history = <<>>
    /\ improvement = <<>>
    /\ new_population = <<>>
    /\ result = <<>>
    /\ error = ""

ga_fields == <<activities, rooms, time_slots, facilitators, population_size,
               mutation_rate>>
driver_vars == <<parent1, parent2, crossover_point, child, mutated>>
evolve_args == <<generations, improvement_threshold>>

\* Lines 207-213: the fitness of every schedule, and the two histories.
Evaluate ==
    /\ pc = "loop"
    /\ gen < generations
    /\ LET evaluated == CacheAt(heap, population, 1..Len(population))
           fitnesses == [i \in 1..Len(evaluated) |-> evaluated[i].fitness[1]]
       IN  /\ population' = evaluated
           /\ avg_fitness_history' = Append(avg_fitness_history, SumSeq(fitnesses))
           /\ best_fitness_history' = Append(best_fitness_history, MaxSeq(fitnesses))
    /\ pc' = "converge"
    /\ UNCHANGED <<ga_fields, driver_vars, evolve_args, heap, gen, improvement,
                   new_population, result, error>>

\* Line 216, gen < 100: no convergence test; line 223.
ConvergenceSkipped ==
    /\ pc = "converge"
    /\ gen < ConvergenceStart
    /\ pc' = "breed"
    /\ new_population' = <<>>
    /\ UNCHANGED <<ga_fields, driver_vars, evolve_args, population, heap, gen,
                   avg_fitness_history, best_fitness_history, improvement,
                   result, error>>

\* Lines 217-218 with abs(avg_fitness_history[-100]) = 0: the float division
\* raises ZeroDivisionError, which nothing catches.
ConvergenceRaises ==
    /\ pc = "converge"
    /\ gen >= ConvergenceStart
    /\ Improvement(avg_fitness_history)[2] = 0
    /\ pc' = "error"
    /\ error' = "ZeroDivisionError"
    /\ UNCHANGED <<ga_fields, driver_vars, evolve_args, population, heap, gen,
                   avg_fitness_history, best_fitness_history, improvement,
                   new_population, result>>

\* Lines 217-220, improvement < improvement_threshold: break.
ConvergenceBreak ==
    /\ pc = "converge"
    /\ gen >= ConvergenceStart
    /\ Improvement(avg_fitness_history)[2] # 0
    /\ Less(Improvement(avg_fitness_history), improvement_threshold)
    /\ improvement' = <<Improvement(avg_fitness_history)>>
    /\ pc' = "return"
    /\ UNCHANGED <<ga_fields, driver_vars, evolve_args, population, heap, gen,
                   avg_fitness_history, best_fitness_history, new_population,
                   result, error>>

\* Lines 217-223, improvement >= improvement_threshold: the loop goes on.
ConvergenceContinue ==
    /\ pc = "converge"
    /\ gen >= ConvergenceStart
    /\ Improvement(avg_fitness_history)[2] # 0
    /\ ~Less(Improvement(avg_fitness_history), improvement_threshold)
    /\ improvement' = <<Improvement(avg_fitness_history)>>
    /\ pc' = "breed"
    /\ new_population' = <<>>
    /\ UNCHANGED <<ga_fields, driver_vars, evolve_args, population, heap, gen,
                   avg_fitness_history, best_fitness_history, result, error>>

\* What one turn of the while loop (lines 225-228) can produce: the
\* population after the two select_parent calls (get_fitness fills the cache
\* of a sampled schedule that has none), and the heap and the Schedule that
\* mutate(crossover(parent1, parent2)) returns.
BreedOutcomes ==
    UNION {
        LET sampled == CacheAt(heap, population, TT[1] \cup TT[2])
            children == {crossover(sampled[pp[1]], sampled[pp[2]], point) :
                            pp \in select_parent(heap, sampled, TT[1])
                                      \X select_parent(heap, sampled, TT[2]),
                            point \in CrossoverPoints}
        IN  UNION {{[population |-> sampled, bred |-> m] :
                        m \in MutateOutcomes(heap, c)} :
                   c \in children} :
        TT \in Tournaments(population) \X Tournaments(population)}

\* Lines 224-229, one turn of the while loop: two tournaments, crossover,
\* mutate, append.
BreedChild ==
    /\ pc = "breed"
    /\ Len(new_population) < population_size
    /\ Len(population) >= TournamentSize
    /\ \E o \in BreedOutcomes :
         /\ population' = o.population
         /\ heap' = o.bred.heap
         /\ new_population' = Append(new_population, o.bred.schedule)
    /\ UNCHANGED <<ga_fields, driver_vars, evolve_args, pc, gen,
                   avg_fitness_history, best_fitness_history, improvement,
                   result, error>>

\* Line 225 with fewer than 5 individuals: random.sample raises ValueError
\* ("Sample larger than population"), which nothing catches.
SelectParentRaises ==
    /\ pc = "breed"
    /\ Len(new_population) < population_size
    /\ Len(population) < TournamentSize
    /\ pc' = "error"
    /\ error' = "ValueError"
    /\ UNCHANGED <<ga_fields, driver_vars, evolve_args, population, heap, gen,
                   avg_fitness_history, best_fitness_history, improvement,
                   new_population, result>>

\* Line 231 and the next turn of the for loop; the schedules of the old
\* population are dropped.
ReplacePopulation ==
    /\ pc = "breed"
    /\ Len(new_population) >= population_size
    /\ population' = new_population
    /\ heap' = Collect(heap, RefsOf(new_population))
    /\ new_population' = <<>>
    /\ gen' = gen + 1
    /\ pc' = "loop"
    /\ UNCHANGED <<ga_fields, driver_vars, evolve_args, avg_fitness_history,
                   best_fitness_history, improvement, result, error>>

\* Line 233, reached by break or when range(generations) is exhausted.
Return ==
    /\ \/ pc = "return"
       \/ pc = "loop" /\ gen >= generations
    /\ LET evaluated == CacheAt(heap, population, 1..Len(population))
       IN  /\ population' = evaluated
           /\ result' = <<evaluated[Best(heap, evaluated)]>>
    /\ pc' = "done"
    /\ UNCHANGED <<ga_fields, driver_vars, evolve_args, heap, gen,
                   avg_fitness_history, best_fitness_history, improvement,
                   new_population, error>>

-----------------------------------------------------------------------------
(* The runs of evolve that are explored                                    *)

\* Generation budgets of the runs with every initial population.
MaxGenerations == 1
\* Generations the long runs have beyond the start of the convergence test.
ExtraGenerations == 2

RateZero == <<0, 1>>
RateDefault == <<1, 100>>
RateOne == <<1, 1>>
ThresholdDefault == <<1, 100>>
ThresholdZero == <<0, 1>>

\* Every individual over the genes of a configuration.
Individuals(cfg) == [1..Len(cfg.activities) -> Genes(cfg)]

RECURSIVE IndividualCode(_, _, _)
\* A number that orders individuals (initial populations are drawn in
\* nondecreasing order: selection samples without regard to position).
IndividualCode(cfg, ind, i) ==
    IF i > Len(ind) THEN 0
    ELSE LET g == ind[i]
             code == ((g[1] - 1) * Len(cfg.time_slots) + (g[2] - 1))
                         * Len(cfg.facilitators) + (g[3] - 1)
         IN  code + Cardinality(Genes(cfg)) * IndividualCode(cfg, ind, i + 1)

InitialPopulations(cfg) ==
    {pop \in [1..cfg.population_size -> cfg.seeds] :
        \A p \in 1..(cfg.population_size - 1) :
            IndividualCode(cfg, pop[p], 1) <= IndividualCode(cfg, pop[p + 1], 1)}

Config(acts, rms, slots, facs, size, rate, gens, threshold, seeds) ==
    [activities |-> acts, rooms |-> rms, time_slots |-> slots,
     facilitators |-> facs, population_size |-> size, mutation_rate |-> rate,
     generations |-> gens, improvement_threshold |-> threshold, seeds |-> seeds]

\* Two activities, one room, two time slots, one facilitator.
SmallData ==
    Config(SubSeq(DocActivities, 1, 2), <<DocRooms[3]>>,
           SubSeq(DocTimeSlots, 1, 2), <<DocFacilitators[5]>>,
           TournamentSize, RateZero, 0, ThresholdDefault, {})

\* Two activities, two rooms, two time slots, one facilitator.
LongData ==
    Config(SubSeq(DocActivities, 1, 2), <<DocRooms[3], DocRooms[1]>>,
           SubSeq(DocTimeSlots, 1, 2), <<DocFacilitators[5]>>,
           TournamentSize, RateZero, 0, ThresholdDefault, {})

\* Short runs: population sizes 4 and 5, without mutation and with the
\* default mutation rate, every initial population.
ShortConfigs ==
    {[SmallData EXCEPT !.population_size = size, !.mutation_rate = rate,
                       !.generations = gens, !.seeds = Individuals(SmallData)] :
        size \in (TournamentSize - 1)..TournamentSize,
        rate \in {RateZero, RateDefault},
        gens \in 0..MaxGenerations}

\* Long runs, past the start of the convergence test: no mutation, initial
\* populations that agree on the first gene.
LongConfigs ==
    {[LongData EXCEPT !.generations = ConvergenceStart + ExtraGenerations,
                      !.improvement_threshold = threshold,
                      !.seeds = {ind \in Individuals(LongData) :
                                    ind[1] = <<1, 1, 1>>}] :
        threshold \in {ThresholdDefault, ThresholdZero}}

Init ==
    \E cfg \in ShortConfigs \cup LongConfigs :
        \E pop \in InitialPopulations(cfg) :
            /\ Construct(cfg, pop)
            /\ EnterEvolve(cfg)
            /\ NoDriver

Next ==
    \/ Evaluate
    \/ ConvergenceSkipped
    \/ ConvergenceRaises
    \/ ConvergenceBreak
    \/ ConvergenceContinue
    \/ BreedChild
    \/ SelectParentRaises
    \/ ReplacePopulation
    \/ Return

Spec == Init /\ [][Next]_vars

-----------------------------------------------------------------------------
(* crossover, mutate and get_fitness called one at a time on a constructed *)
(* GeneticAlgorithm, as a unit test calls them                             *)

\* The GeneticAlgorithm is constructed and evolve has not been called.
NoEvolve ==
    /\ pc = "idle"
    /\ generations = 0
    /\ improvement_threshold = ThresholdDefault
    /\ gen = 0
    /\ avg_fitness_history = <<>>
    /\ best_fitness_history = <<>>
    /\ improvement = <<>>
    /\ new_population = <<>>
    /\ result = <<>>
    /\ error = ""

evolve_vars == <<pc, generations, improvement_threshold, gen,
                 avg_fitness_history, best_fitness_history, improvement,
                 new_population, result, error>>

\* child = ga.crossover(ga.population[i], ga.population[j]), the first call
\* made on the engine.
CallCrossover ==
    /\ pc = "idle"
    /\ child = <<>>
    /\ \E i \in 1..Len(population), j \in 1..Len(population),
          point \in CrossoverPoints :
         /\ parent1' = i
         /\ parent2' = j
         /\ crossover_point' = point
         /\ child' = <<crossover(population[i], population[j], point)>>
    /\ mutated' = <<>>
    /\ heap' = Collect(heap, RefsOf(population))
    /\ UNCHANGED <<ga_fields, evolve_vars, population>>

\* mutated = ga.mutate(child)
CallMutate ==
    /\ pc = "idle"
    /\ child # <<>>
    /\ mutated = <<>>
    /\ \E m \in MutateOutcomes(heap, child[1]) :
         /\ heap' = m.heap
         /\ mutated' = <<m.schedule>>
    /\ UNCHANGED <<ga_fields, evolve_vars, population, parent1, parent2,
                   crossover_point, child>>

\* ga.population[i].get_fitness()
CallGetFitness ==
    /\ pc = "idle"
    /\ \E i \in 1..Len(population) :
         population' = CacheAt(heap, population, {i})
    /\ UNCHANGED <<ga_fields, evolve_vars, driver_vars, heap>>

\* Activities of the schedules that crossover and mutate are called on.
BreedActivities == 3
\* Activities of the schedules that get_fitness is called on.
FitActivities == 5

\* Two rooms, two time slots, two facilitators; two schedules, each gene of
\* which is the first or the second of every list.
BreedData ==
    Config(SubSeq(DocActivities, 1, BreedActivities),
           <<DocRooms[3], DocRooms[1]>>, SubSeq(DocTimeSlots, 1, 2),
           <<DocFacilitators[5], DocFacilitators[2]>>,
           2, RateZero, 0, ThresholdDefault, {})

BreedConfigs ==
    {[BreedData EXCEPT !.mutation_rate = rate,
                       !.seeds = [1..BreedActivities -> {<<1, 1, 1>>, <<2, 2, 2>>}]] :
        rate \in {RateZero, RateDefault, RateOne}}

InitBreed ==
    \E cfg \in BreedConfigs :
        \E pop \in InitialPopulations(cfg) :
            /\ Construct(cfg, pop)
            /\ NoEvolve
            /\ NoDriver

NextBreed == CallCrossover \/ CallMutate

SpecBreed == InitBreed /\ [][NextBreed]_vars

\* One schedule over the first activities of the data set, one room, the
\* time slots 10:00, 11:00 and 15:00, and two facilitators: the data set's
\* "Tyler" or the name "Dr. Tyler", and "Glen".
FitData(tyler) ==
    Config(SubSeq(DocActivities, 1, FitActivities), <<DocRooms[4]>>,
           <<DocTimeSlots[1], DocTimeSlots[2], DocTimeSlots[6]>>,
           <<tyler, DocFacilitators[2]>>,
           1, RateDefault, 0, ThresholdDefault, {})

FitConfigs ==
    {[FitData(tyler) EXCEPT !.seeds = Individuals(FitData(tyler))] :
        tyler \in {DocFacilitators[8], SpecialFacilitator}}

InitFitness ==
    \E cfg \in FitConfigs :
        \E pop \in InitialPopulations(cfg) :
            /\ Construct(cfg, pop)
            /\ NoEvolve
            /\ NoDriver

NextFitness == CallGetFitness

SpecFitness == InitFitness /\ [][NextFitness]_vars

-----------------------------------------------------------------------------
(* Properties                                                              *)

\* Every Schedule the engine holds: the population, the generation under
\* construction and the Schedule evolve returned.
HeldSchedules ==
    {population[i] : i \in 1..Len(population)}
    \cup {new_population[i] : i \in 1..Len(new_population)}
    \cup {result[i] : i \in 1..Len(result)}

\* s has one item per activity of the list and item i carries activity i.
WellFormed(s) ==
    /\ Len(s.items) = Len(activities)
    /\ \A i \in 1..Len(s.items) :
         /\ s.items[i] \in DOMAIN heap
         /\ heap[s.items[i]].activity = activities[i]

\* C1: in every state of a run of evolve, every Schedule of the population
\* (and of the generation being built, and the one returned) has exactly
\* len(activities) items, and its i-th item carries the i-th activity.
C1_OneItemPerActivity == \A s \in HeldSchedules : WellFormed(s)

\* C1 witness: a generation bred by crossover and mutate (mutation rate
\* above 0) has replaced the initial population, and one of its schedules
\* is not a copy of any single value the other schedules have.
C1_Witness ==
    /\ gen >= 1
    /\ mutation_rate[1] > 0
    /\ Len(population) = TournamentSize
    /\ \E i, j \in 1..Len(population) :
         ItemsOf(heap, population[i]) # ItemsOf(heap, population[j])

\* The fitness of the Schedule evolve returned.
ReturnedFitness == result[1].fitness[1]

\* C2 as claimed: the returned schedule is at least as fit as the best of
\* every generation that was evaluated.
C2_ReturnsBestOfRun ==
    pc = "done" =>
        \A g \in 1..Len(best_fitness_history) :
            ReturnedFitness >= best_fitness_history[g]

\* C2 as amended: evolve returns a schedule of the final population that is
\* at least as fit as every schedule of that population; when the loop ended
\* by the convergence break (the population was not replaced after its
\* evaluation) its fitness is the last recorded best fitness.
C2_ReturnsBestOfFinalPopulation ==
    pc = "done" =>
        /\ \E i \in 1..Len(population) : result[1] = population[i]
        /\ \A i \in 1..Len(population) :
             ReturnedFitness >= FitnessValue(heap, population[i])
        /\ gen < generations =>
             ReturnedFitness = FromEnd(best_fitness_history, 1)

\* C2 witness: evolve has returned a schedule that is less fit than the best
\* schedule of an earlier generation.
C2_Witness ==
    /\ pc = "done"
    /\ best_fitness_history # <<>>
    /\ ReturnedFitness < best_fitness_history[1]

\* C3 as claimed: the convergence check never ends the run with an error
\* when the average it divides by is 0.
C3_ZeroAverageNeverRaises == ~(pc = "error" /\ error = "ZeroDivisionError")

\* C4 as claimed: an engine of fewer than 5 schedules never fails inside
\* select_parent during a run of evolve (it is rejected at construction).
C4_SmallPopulationNeverFailsMidRun ==
    ~(population_size < TournamentSize /\ pc = "error" /\ error = "ValueError")

\* C7: in every state of a run of evolve, a cached fitness is the fitness of
\* the schedule's current items (breeding never changes an item of a
\* schedule whose fitness is cached, although a crossover child holds its
\* parents' item objects), and the schedules bred for the next generation
\* have an empty cache.
C7_CacheMatchesItems ==
    /\ \A s \in HeldSchedules :
         s.fitness # <<>> => s.fitness[1] = calculate_fitness(ItemsOf(heap, s))
    /\ \A i \in 1..Len(new_population) : new_population[i].fitness = <<>>

\* C7 witness: the population is evaluated, and a schedule bred from it
\* differs in its items from every schedule of the population.
C7_Witness ==
    /\ pc = "breed"
    /\ \A i \in 1..Len(population) : population[i].fitness # <<>>
    /\ \E k \in 1..Len(new_population) :
         \A i \in 1..Len(population) :
            ItemsOf(heap, new_population[k]) # ItemsOf(heap, population[i])

\* The improvement the claim describes at generation gen: from the averages
\* of generation gen and of generation gen - 100 (history position g + 1
\* holds generation g).
ClaimedImprovement ==
    LET now == avg_fitness_history[gen + 1]
        old == avg_fitness_history[gen - ConvergenceLookback + 1]
    IN  <<now - old, Abs(old)>>

\* C8 as claimed: evolve never stops early before generation 100, and from
\* generation 100 on the improvement it tests is computed from the average
\* of this generation and the average of the generation 100 earlier.
C8_ComparesWith100GenerationsEarlier ==
    /\ pc = "return" => gen >= ConvergenceStart
    /\ (pc \in {"breed", "return"} /\ gen >= ConvergenceStart) =>
           improvement = <<ClaimedImprovement>>

\* The child crossover returned, made of its two parents at the cut.
ChildOfParents(c, p1, p2, point) ==
    LET K == Len(activities)
    IN  /\ K >= 2
        /\ 1 <= point /\ point <= K - 1
        /\ Len(c.items) = K
        /\ \A i \in 1..point : c.items[i] = p1.items[i]
        /\ \A i \in (point + 1)..K : c.items[i] = p2.items[i]
        /\ \E i \in 1..K : c.items[i] = p1.items[i]
        /\ \E i \in 1..K : c.items[i] = p2.items[i]

\* C5: a call of crossover on two schedules of K >= 2 items returns a child
\* of K items that has parent1's items before a cut between 1 and K - 1 and
\* parent2's items from the cut on (so at least one item of each parent),
\* and no call changes the item sequence of a schedule of the population.
C5_CrossoverSplicesParents ==
    [][/\ child' # <<>> =>
            ChildOfParents(child'[1], population'[parent1'],
                           population'[parent2'], crossover_point')
       /\ \A i \in 1..Len(population) :
            /\ population'[i].items = population[i].items
            /\ ItemsOf(heap', population'[i]) = ItemsOf(heap, population[i])
      ]_vars

\* C5 witness: crossover has returned the child of two parents that differ
\* in every item, cut at 2, so the child is neither parent.
C5_Witness ==
    /\ child # <<>>
    /\ parent1 # parent2
    /\ crossover_point = 2
    /\ \A i \in 1..Len(activities) :
         heap[population[parent1].items[i]] # heap[population[parent2].items[i]]
    /\ ItemsOf(heap, child[1]) # ItemsOf(heap, population[parent1])
    /\ ItemsOf(heap, child[1]) # ItemsOf(heap, population[parent2])

\* The number of facets (room, time slot, facilitator) in which b differs
\* from a.
FacetsChanged(a, b) ==
    (IF a.room # b.room THEN 1 ELSE 0)
    + (IF a.time_slot # b.time_slot THEN 1 ELSE 0)
    + (IF a.facilitator # b.facilitator THEN 1 ELSE 0)

\* The items of mutate's argument and of the Schedule it returned.
MutateInput == ItemsOf(heap, child[1])
MutateOutput == ItemsOf(heap, mutated[1])

\* C6 as claimed: with mutation rate 1, every item of the result differs
\* from the input item in exactly one facet; with mutation rate 0, every
\* item equals the input item.
C6_ExactlyOneFacetChanges ==
    mutated # <<>> =>
        /\ Len(MutateOutput) = Len(MutateInput)
        /\ mutation_rate = RateOne =>
             \A i \in 1..Len(MutateInput) :
                /\ MutateOutput[i].activity = MutateInput[i].activity
                /\ FacetsChanged(MutateInput[i], MutateOutput[i]) = 1
        /\ mutation_rate = RateZero => MutateOutput = MutateInput

\* C6 as amended: with mutation rate 1, every item of the result differs
\* from the input item in at most one facet (one facet is drawn again, and
\* the draw can return the value the item has), the activity being equal;
\* with mutation rate 0, every item equals the input item.
C6_AtMostOneFacetChanges ==
    mutated # <<>> =>
        /\ Len(MutateOutput) = Len(MutateInput)
        /\ mutation_rate = RateOne =>
             \A i \in 1..Len(MutateInput) :
                /\ MutateOutput[i].activity = MutateInput[i].activity
                /\ FacetsChanged(MutateInput[i], MutateOutput[i]) <= 1
        /\ mutation_rate = RateZero => MutateOutput = MutateInput

\* C6 witness: mutate with mutation rate 1 has returned a schedule with an
\* item equal to the input item and an item that differs in one facet.
C6_Witness ==
    /\ mutated # <<>>
    /\ mutation_rate = RateOne
    /\ \E i \in 1..Len(MutateInput) : MutateOutput[i] = MutateInput[i]
    /\ \E i \in 1..Len(MutateInput) :
         FacetsChanged(MutateInput[i], MutateOutput[i]) = 1

\* The schedules of the population whose fitness has been computed.
EvaluatedItems ==
    {ItemsOf(heap, population[p]) :
        p \in {q \in 1..Len(population) : population[q].fitness # <<>>}}

\* The hour difference between item i and the other section of its course.
SectionHourDifference(items, i) ==
    LET j == CHOOSE k \in 1..Len(items) :
                 /\ items[k].activity.name = items[i].activity.name
                 /\ items[k].activity.section # items[i].activity.section
    IN  Abs(items[j].time_slot.hour - items[i].time_slot.hour)

\* C9 as claimed: in a schedule over the documented data set, each of the
\* two SLA191 sections gets +0.5 from the paired-section rule when the
\* sections are more than 4 hours apart, -0.5 when they are in the same
\* hour, and 0 otherwise.
C9_PairedSectionRuleScoresSLA191 ==
    (\A k \in 1..Len(facilitators) :
        \E d \in 1..Len(DocFacilitators) : facilitators[k] = DocFacilitators[d])
    => \A items \in EvaluatedItems :
         \A i \in 1..Len(items) :
            items[i].activity.name = "SLA191" =>
                PairedSectionTerm(items, i) =
                    (IF SectionHourDifference(items, i) > 4
                        THEN SectionsApartBonus
                     ELSE IF SectionHourDifference(items, i) = 0
                        THEN SectionsSameHourPenalty
                     ELSE 0)

\* C10 as claimed: every item of Dr. Tyler gets a negative total-load term
\* when Dr. Tyler has more than 2 items and none when Dr. Tyler has 1 or 2,
\* and an item of any other facilitator with fewer than 3 items gets -0.4.
C10_TylerCappedAtTwo ==
    \A items \in EvaluatedItems :
        \A i \in 1..Len(items) :
            LET f == items[i].facilitator
                n == FacilitatorLoad(items, f)
            IN  /\ (f = "Dr. Tyler" /\ n > 2) => TotalLoadTerm(items, i) < 0
                /\ (f = "Dr. Tyler" /\ n <= 2) => TotalLoadTerm(items, i) = 0
                /\ (f # "Dr. Tyler" /\ n < 3) =>
                       TotalLoadTerm(items, i) = UnderloadPenalty

=============================================================================
